---- MODULE Spec2Model ----
(***************************************************************************)
(* A model of MCPServer (src/server_standalone.py): the tool and resource  *)
(* registries, schema synthesis, the request dispatcher handle_request and *)
(* the transport loop run(), which reads one line, decodes it, dispatches  *)
(* it and prints one response line.                                        *)
(*                                                                         *)
(* Python values are tagged records [k |-> kind, v |-> payload]; a Python  *)
(* dict is a function from its keys, an ordered dict (the registries) a    *)
(* sequence of [key, value] entries in insertion order.  A call ends as a  *)
(* record Res(how, val, invoked): it returns, it raises an Exception (what *)
(* `except Exception` catches) or the process is gone before it ends.      *)
(* Standard output is taken to be writable.  A text (a line read or        *)
(* printed) is a record apart from the value it is the JSON text of.       *)
(***************************************************************************)
EXTENDS Integers, Sequences, FiniteSets, TLC

VARIABLES
    functions,       \* the function objects defined: __name__, __doc__, signature
    tools,           \* self.tools: name -> descriptor, insertion ordered
    tool_functions,  \* self.tool_functions: name -> callable
    resources,       \* self.resources: uri -> callable
    loaded,          \* how many module-level decorators have run
    pc,              \* position of the process: setup, read, loads, print, except, done,
                     \* killed, raised (ended by an uncaught exception)
    line,            \* run(): the line just read
    response,        \* run(): the response handle_request returned
    exc,             \* run(): str(e) of the exception being handled
    lines,           \* history: every non-empty line read so far
    stdout,          \* history: every line printed (and flushed) so far
    calls            \* history: every call of handle_request and of a handler

vars == <<functions, tools, tool_functions, resources, loaded, pc, line, response, exc,
          lines, stdout, calls>>

\* How many lines the input stream delivers before end-of-stream at the latest.
MaxLines == 2

\* The pid of the server process itself (os.getpid()), and of some other process.
SelfPid == 100
OtherPid == 200

-----------------------------------------------------------------------------
(* Python / JSON values *)

None == [k |-> "None", v |-> "None"]
IntV(n) == [k |-> "int", v |-> n]
StrV(s) == [k |-> "str", v |-> s]
BoolV(b) == [k |-> "bool", v |-> b]
\* the JSON array [] (a Python list: unhashable, not a mapping)
EmptyList == [k |-> "list", v |-> <<>>]
DictV(f) == [k |-> "dict", v |-> f]
EmptyDict == DictV([x \in {} |-> None])
\* a Python object json cannot serialize (bytes, a set, a datetime, ...)
Bytes == [k |-> "bytes", v |-> "b'x'"]

\* hash(value) succeeds: what a dict membership test needs
Hashable(value) == value.k \notin {"list", "dict"}

\* type(value).__name__
TypeName(value) ==
    CASE value.k = "None" -> "NoneType"
      [] OTHER -> value.k

\* str(value), as an f-string formats it
PyStr(value) ==
    CASE value.k = "str" -> value.v
      [] value.k = "int" -> ToString(value.v)
      [] value.k = "None" -> "None"
      [] value.k = "bool" -> IF value.v THEN "True" ELSE "False"
      [] value.k = "list" -> "[]"
      [] value.k = "dict" -> "{...}"
      [] OTHER -> value.v

\* How a call ends: it returns val, it raises an Exception whose str() is val, or
\* the process is gone before it ends.  invoked lists the handler calls it made.
Res(how, val, invoked) == [how |-> how, val |-> val, invoked |-> invoked]
Return(value) == Res("return", value, <<>>)
Raise(message) == Res("raise", message, <<>>)

\* value.get(key, default): AttributeError unless value is a dict
DictGet(value, key, default) ==
    IF value.k # "dict"
    THEN Raise("'" \o TypeName(value) \o "' object has no attribute 'get'")
    ELSE Return(IF key \in DOMAIN value.v THEN value.v[key] ELSE default)

\* json can serialize value
Serializable(value) == value.k # "bytes"

\* json.dumps(value): the text of value, a TypeError for what json cannot serialize
JsonDumps(value, indent) ==
    IF Serializable(value)
    THEN Return([malformed |-> FALSE, json |-> value, indent |-> indent])
    ELSE Raise("Object of type " \o TypeName(value) \o " is not JSON serializable")

-----------------------------------------------------------------------------
(* Ordered dicts: the registries *)

RECURSIVE OdIndex(_, _)
\* position of key in od, 0 when absent
OdIndex(od, key) ==
    IF od = <<>> THEN 0
    ELSE IF od[Len(od)].key = key THEN Len(od)
    ELSE OdIndex(SubSeq(od, 1, Len(od) - 1), key)

OdHas(od, key) == OdIndex(od, key) # 0
OdGet(od, key) == od[OdIndex(od, key)].value
\* od[key] = value: replaces in place, or appends
OdSet(od, key, value) ==
    IF OdHas(od, key)
    THEN [od EXCEPT ![OdIndex(od, key)] = [key |-> key, value |-> value]]
    ELSE Append(od, [key |-> key, value |-> value])
OdKeys(od) == [i \in 1..Len(od) |-> od[i].key]
OdValues(od) == [i \in 1..Len(od) |-> od[i].value]

-----------------------------------------------------------------------------
(* The registered callables.  kill_process and get_system_status are the   *)
(* module's own; tool_fn and resource_fn stand for any callable a module   *)
(* registers through MCPServer.tool / MCPServer.resource.                  *)

\* func.__name__, func.__doc__ or ""
FuncName(func) == functions[func].name
FuncDoc(func) == functions[func].doc

\* inspect.Parameter.empty
ParameterEmpty == [k |-> "empty", v |-> "empty"]
\* an object whose __eq__ answers True to anything (unittest.mock.ANY)
ANY == [k |-> "ANY", v |-> "ANY"]
\* left == right: an __eq__ that answers True to anything decides, else the values do
PyEq(left, right) == left.k = "ANY" \/ right.k = "ANY" \/ left = right

NoOrigin == "none"
\* an annotation without __origin__: a class, or any other object
Annotation(cls) == [cls |-> cls, origin |-> NoOrigin]
\* a parameterized annotation: typing.List[int] has __origin__ list
Generic(cls, origin) == [cls |-> cls, origin |-> origin]
\* annotations that cannot be hashed: a list display such as [int]
UnhashableAnnotations == {"[int]"}

\* inspect.signature(func).parameters
Signature(func) == functions[func].signature

\* the functions src/server_standalone.py defines and registers; tool_fn and
\* resource_fn stand for its other tools and resources
ModuleFunctions ==
    [func \in {"kill_process", "get_system_status", "tool_fn", "resource_fn"} |->
        [name |-> func,
         doc |-> CASE func = "kill_process" -> "Terminate a process by its PID."
                   [] func = "get_system_status" ->
                        "Get a comprehensive system status overview."
                   [] OTHER -> "",
         signature |->
            IF func = "kill_process"
            THEN << [name |-> "pid", annotation |-> Annotation("int"),
                     default |-> ParameterEmpty],
                    [name |-> "force", annotation |-> Annotation("bool"),
                     default |-> BoolV(FALSE)] >>
            ELSE << >>]]

\* type_map.get(key, "string"): a TypeError when key cannot be hashed
TypeMapGet(key) ==
    IF key \in UnhashableAnnotations
    THEN Raise("unhashable type: 'list'")
    ELSE Return(CASE key = "int" -> "integer"
                  [] key = "float" -> "number"
                  [] key = "str" -> "string"
                  [] key = "bool" -> "boolean"
                  [] key = "list" -> "array"
                  [] key = "dict" -> "object"
                  [] OTHER -> "string")

_python_type_to_json_type(python_type) ==
    IF python_type.origin # NoOrigin
    THEN TypeMapGet(python_type.origin)
    ELSE TypeMapGet(python_type.cls)

RECURSIVE SchemaProperties(_)
\* the loop of _get_schema, as far as properties goes: the first parameter
\* whose type lookup raises ends it
SchemaProperties(params) ==
    IF params = <<>> THEN Return(<<>>)
    ELSE LET param == Head(params)
             param_type == IF param.annotation.cls # "empty" THEN param.annotation
                           ELSE Annotation("string")
             json_type == _python_type_to_json_type(param_type)
             rest == SchemaProperties(Tail(params))
         IN IF param.name = "self" THEN rest
            ELSE IF json_type.how = "raise" THEN json_type
            ELSE IF rest.how = "raise" THEN rest
            ELSE Return(<<[key |-> param.name, value |-> [type |-> json_type.val]]>>
                        \o rest.val)

RECURSIVE SchemaRequired(_)
SchemaRequired(params) ==
    IF params = <<>> THEN <<>>
    ELSE LET param == Head(params)
             rest == SchemaRequired(Tail(params))
         IN IF param.name = "self" \/ ~PyEq(param.default, ParameterEmpty) THEN rest
            ELSE <<param.name>> \o rest

_get_schema(func) ==
    LET properties == SchemaProperties(Signature(func))
    IN IF properties.how = "raise" THEN properties
       ELSE Return([type |-> "object",
                    properties |-> properties.val,
                    required |-> SchemaRequired(Signature(func))])

\* a tool decorator that stores the handler only for a name not yet registered
tool_keeps_first_handler(func) ==
    LET schema == _get_schema(func)
    IN IF schema.how = "raise"
       THEN UNCHANGED <<tools, tool_functions, resources>>
       ELSE /\ tools' = OdSet(tools, FuncName(func),
                              [name |-> FuncName(func),
                               description |-> FuncDoc(func),
                               inputSchema |-> schema.val])
            /\ tool_functions' = IF OdHas(tool_functions, FuncName(func))
                                 THEN tool_functions
                                 ELSE OdSet(tool_functions, FuncName(func), func)
            /\ UNCHANGED resources

\* MCPServer.tool(func): the decorator's effect on the registries; nothing is
\* stored when the schema synthesis raises
tool(func) ==
    LET schema == _get_schema(func)
    IN IF schema.how = "raise"
       THEN UNCHANGED <<tools, tool_functions, resources>>
       ELSE /\ tools' = OdSet(tools, FuncName(func),
                              [name |-> FuncName(func),
                               description |-> FuncDoc(func),
                               inputSchema |-> schema.val])
            /\ tool_functions' = OdSet(tool_functions, FuncName(func), func)
            /\ UNCHANGED resources

\* MCPServer.resource(uri)(func)
resource(uri, func) ==
    /\ resources' = OdSet(resources, uri, func)
    /\ UNCHANGED <<tools, tool_functions>>

-----------------------------------------------------------------------------
(* The handlers' bodies.  env is what the handler meets when it runs:      *)
(* "return" (it succeeds), "unserializable" (it returns an object json     *)
(* cannot serialize, if it is a callable that may) or "raise" (the system  *)
(* call it makes fails).                                                   *)

Env == {"return", "unserializable", "raise"}

\* kill_process(pid, force): signals the process; every Exception is caught and
\* reported in the returned dict.  Signalling the server's own pid ends the server.
kill_process(arguments, env) ==
    LET pid == arguments.v["pid"]
    IN IF pid = IntV(SelfPid)
       THEN Res("killed", "SIGTERM", <<>>)
       ELSE Return(DictV(("success" :> BoolV(env # "raise")) @@ ("pid" :> pid)))

\* get_system_status(): the status text, or whatever psutil raises
get_system_status(env) ==
    IF env = "raise"
    THEN Raise("psutil.Error")
    ELSE Return(StrV("System Status Overview"))

\* any other registered callable: func(**arguments) / func() returns any object or raises
OpaqueCall(func, env) ==
    CASE env = "raise" -> Raise(func \o " failed")
      [] env = "unserializable" -> Return(Bytes)
      [] OTHER -> Return(IF func = "resource_fn" THEN StrV("text") ELSE IntV(5))

HandlerBody(func, arguments, env) ==
    CASE func = "kill_process" -> kill_process(arguments, env)
      [] func = "get_system_status" -> get_system_status(env)
      [] OTHER -> OpaqueCall(func, env)

ParamNames(func) == {Signature(func)[i].name : i \in 1..Len(Signature(func))}
RequiredNames(func) ==
    {Signature(func)[i].name : i \in {j \in 1..Len(Signature(func)) :
                                        Signature(func)[j].default = ParameterEmpty}}

\* one entry of the call history
Invocation(func, arguments, r) ==
    [callee |-> func, arguments |-> arguments, how |-> r.how, val |-> r.val]

\* func(**arguments): a TypeError unless arguments is a mapping that binds to the
\* signature, else the body's outcome
CallKw(func, arguments, env) ==
    LET r == IF arguments.k # "dict"
             THEN Raise(FuncName(func) \o "() argument after ** must be a mapping, not "
                        \o TypeName(arguments))
             ELSE IF ~(DOMAIN arguments.v \subseteq ParamNames(func))
             THEN Raise(FuncName(func) \o "() got an unexpected keyword argument")
             ELSE IF ~(RequiredNames(func) \subseteq DOMAIN arguments.v)
             THEN Raise(FuncName(func) \o "() missing required positional argument")
             ELSE HandlerBody(func, arguments, env)
    IN Res(r.how, r.val, <<Invocation(func, arguments, r)>>)

-----------------------------------------------------------------------------
(* The dispatcher *)

\* an error envelope that also carries a null result
_error_response_with_result(request_id, code, message) ==
    [jsonrpc |-> "2.0",
     id |-> request_id,
     result |-> None,
     error |-> [code |-> code, message |-> message]]

_error_response(request_id, code, message) ==
    [jsonrpc |-> "2.0",
     id |-> request_id,
     error |-> [code |-> code, message |-> message]]

ResultResponse(request_id, result) ==
    [jsonrpc |-> "2.0", id |-> request_id, result |-> result]

ServerName == "SystemMonitor"

_handle_initialize(request_id) ==
    ResultResponse(request_id,
        [protocolVersion |-> "2024-11-05",
         capabilities |-> [tools |-> EmptyDict, resources |-> EmptyDict],
         serverInfo |-> [name |-> ServerName, version |-> "1.0.0"]])

_handle_tools_list(request_id) ==
    ResultResponse(request_id, [tools |-> OdValues(tools)])

\* key in od, for a Python value key: a TypeError when key is unhashable
Contains(od, key) ==
    IF ~Hashable(key)
    THEN Raise("unhashable type: '" \o TypeName(key) \o "'")
    ELSE Return(key.k = "str" /\ OdHas(od, key.v))

_handle_tool_call(params, request_id, env) ==
    LET tool_name == DictGet(params, "name", None)
        arguments == DictGet(params, "arguments", EmptyDict)
        known == Contains(tools, tool_name.val)
        result == CallKw(OdGet(tool_functions, tool_name.val.v), arguments.val, env)
        text == JsonDumps(result.val, 2)
    IN IF tool_name.how = "raise" THEN tool_name
       ELSE IF known.how = "raise" THEN known
       ELSE IF ~known.val
       THEN Return(_error_response(request_id, -32602,
                                   "Unknown tool: " \o PyStr(tool_name.val)))
       ELSE IF ~OdHas(tool_functions, tool_name.val.v)
       THEN Raise("'" \o tool_name.val.v \o "'")
       ELSE IF result.how # "return" THEN result
       ELSE IF text.how = "raise" THEN Res("raise", text.val, result.invoked)
       ELSE Res("return",
                ResultResponse(request_id,
                    [content |-> <<[type |-> "text", text |-> text.val]>>]),
                result.invoked)

\* uri.split("://")[1] if "://" in uri else uri, tabulated for the uris of Module
UriName(uri) ==
    CASE uri = "system://status" -> "status"
      [] uri = "custom://res" -> "res"
      [] OTHER -> uri

_handle_resources_list(request_id) ==
    ResultResponse(request_id,
        [resources |-> [i \in 1..Len(resources) |->
                            [uri |-> resources[i].key,
                             name |-> UriName(resources[i].key),
                             mimeType |-> "text/plain"]]])

_handle_resource_read(params, request_id, env) ==
    LET uri == DictGet(params, "uri", None)
        known == Contains(resources, uri.val)
        func == OdGet(resources, uri.val.v)
        body == HandlerBody(func, EmptyDict, env)
        content == Res(body.how, body.val, <<Invocation(func, EmptyDict, body)>>)
    IN IF uri.how = "raise" THEN uri
       ELSE IF known.how = "raise" THEN known
       ELSE IF ~known.val
       THEN Return(_error_response(request_id, -32602,
                                   "Unknown resource: " \o PyStr(uri.val)))
       ELSE IF content.how # "return" THEN content
       ELSE Res("return",
                ResultResponse(request_id,
                    [contents |-> <<[uri |-> uri.val,
                                     mimeType |-> "text/plain",
                                     text |-> content.val]>>]),
                content.invoked)

IsMethod(method, name) == method.k = "str" /\ method.v = name

\* a routing table whose default answers "Invalid Request" instead
RouteDefaultInvalidRequest(method, params, request_id, env) ==
    IF IsMethod(method, "initialize") THEN Return(_handle_initialize(request_id))
    ELSE IF IsMethod(method, "tools/list") THEN Return(_handle_tools_list(request_id))
    ELSE IF IsMethod(method, "tools/call") THEN _handle_tool_call(params, request_id, env)
    ELSE IF IsMethod(method, "resources/list")
    THEN Return(_handle_resources_list(request_id))
    ELSE IF IsMethod(method, "resources/read")
    THEN _handle_resource_read(params, request_id, env)
    ELSE Return(_error_response(request_id, -32600,
                                "Invalid Request: " \o PyStr(method)))

\* the routed handler's outcome (the body of the try)
Route(method, params, request_id, env) ==
    IF IsMethod(method, "initialize") THEN Return(_handle_initialize(request_id))
    ELSE IF IsMethod(method, "tools/list") THEN Return(_handle_tools_list(request_id))
    ELSE IF IsMethod(method, "tools/call") THEN _handle_tool_call(params, request_id, env)
    ELSE IF IsMethod(method, "resources/list")
    THEN Return(_handle_resources_list(request_id))
    ELSE IF IsMethod(method, "resources/read")
    THEN _handle_resource_read(params, request_id, env)
    ELSE Return(_error_response(request_id, -32601,
                                "Method not found: " \o PyStr(method)))

\* a dispatcher without the try: the routed handler's exception leaves it
handle_request_no_try(request, env) ==
    LET method == DictGet(request, "method", None)
        params == DictGet(request, "params", EmptyDict)
        request_id == DictGet(request, "id", None)
    IN IF method.how = "raise" THEN method
       ELSE Route(method.val, params.val, request_id.val, env)

\* a dispatcher with a session: before an initialize request was dispatched, any
\* other method is refused
handle_request_with_session(request, env) ==
    LET method == DictGet(request, "method", None)
        params == DictGet(request, "params", EmptyDict)
        request_id == DictGet(request, "id", None)
        routed == Route(method.val, params.val, request_id.val, env)
        initialized ==
            \/ IsMethod(method.val, "initialize")
            \/ \E i \in 1..Len(calls) :
                    /\ calls[i].callee = "handle_request"
                    /\ DictGet(calls[i].arguments, "method", None).val = StrV("initialize")
    IN IF method.how = "raise" THEN method
       ELSE IF ~initialized
       THEN Return(_error_response(request_id.val, -32002, "Server not initialized"))
       ELSE IF routed.how = "raise"
       THEN Res("return", _error_response(request_id.val, -32603, routed.val),
                routed.invoked)
       ELSE routed

handle_request(request, env) ==
    LET method == DictGet(request, "method", None)
        params == DictGet(request, "params", EmptyDict)
        request_id == DictGet(request, "id", None)
        routed == Route(method.val, params.val, request_id.val, env)
    IN IF method.how = "raise" THEN method
       ELSE IF routed.how = "raise"
       THEN Res("return", _error_response(request_id.val, -32603, routed.val),
                routed.invoked)
       ELSE routed

-----------------------------------------------------------------------------
(* The transport: lines of text in, lines of text out *)

\* a line of text: the JSON text of a value, or text that is no JSON at all
JsonText(value) == [malformed |-> FALSE, json |-> value, indent |-> 0]
Malformed == [malformed |-> TRUE, json |-> None, indent |-> 0]

\* a lenient decoder: text that is no JSON decodes to null
JsonLoadsLenient(text) == Return(text.json)

\* json.loads(text)
JsonLoads(text) ==
    IF text.malformed
    THEN Raise("Expecting value: line 1 column 1 (char 0)")
    ELSE Return(text.json)

\* json.dumps(response) of an envelope: every member is a str, an int or a decoded
\* JSON value, except the text a resource handler returned
DumpsResponse(envelope) ==
    IF /\ "result" \in DOMAIN envelope
       /\ "contents" \in DOMAIN envelope.result
       /\ ~Serializable(envelope.result.contents[1].text)
    THEN Raise("Object of type " \o TypeName(envelope.result.contents[1].text)
               \o " is not JSON serializable")
    ELSE Return(JsonText(envelope))

\* the envelope run() builds in its except branch
ParseErrorResponse(message) ==
    [jsonrpc |-> "2.0",
     id |-> None,
     error |-> [code |-> -32700, message |-> "Parse error: " \o message]]

-----------------------------------------------------------------------------
(* The input lines a client may send *)

\* marks a member the request does not have
Absent == [k |-> "absent", v |-> "absent"]
Member(key, value) == IF value = Absent THEN [x \in {} |-> None] ELSE key :> value

Request(method, params, id) ==
    DictV(Member("method", method) @@ Member("params", params) @@ Member("id", id))

ToolCallParams ==
    {DictV("name" :> n) :
        n \in {StrV("nope"), EmptyList, IntV(5), StrV("kill_process"), StrV("tool_fn")}}
    \cup {DictV(("name" :> StrV("kill_process"))
                @@ ("arguments" :> DictV("pid" :> IntV(p)))) : p \in {SelfPid, OtherPid}}
    \cup {DictV(("name" :> StrV("tool_fn")) @@ ("arguments" :> EmptyList))}

ResourceReadParams ==
    {DictV("uri" :> u) :
        u \in {StrV("system://bogus"), EmptyList, StrV("system://status"),
               StrV("custom://res")}}

ParamsOf(method) ==
    CASE method = StrV("tools/call") -> {Absent, None} \cup ToolCallParams
      [] method = StrV("resources/read") -> {Absent, None} \cup ResourceReadParams
      [] OTHER -> {Absent}

Methods ==
    {Absent, StrV("initialize"), StrV("tools/list"), StrV("tools/call"),
     StrV("resources/list"), StrV("resources/read"), StrV("bogus")}

Ids == {Absent, IntV(1)}

Requests == UNION {{Request(m, p, i) : p \in ParamsOf(m), i \in Ids} : m \in Methods}

\* decoded JSON values that are no object
NonObjects == {EmptyList, None}

Lines == {Malformed} \cup {JsonText(v) : v \in Requests \cup NonObjects}

-----------------------------------------------------------------------------
(* The program: the module's decorators run in order, then mcp.run() *)

Module ==
    << [decorator |-> "tool", uri |-> "", func |-> "kill_process"],
       [decorator |-> "tool", uri |-> "", func |-> "tool_fn"],
       [decorator |-> "resource", uri |-> "system://status", func |-> "get_system_status"],
       [decorator |-> "resource", uri |-> "custom://res", func |-> "resource_fn"] >>

Init ==
    /\ functions = ModuleFunctions
    /\ tools = <<>>
    /\ tool_functions = <<>>
    /\ resources = <<>>
    /\ loaded = 0
    /\ pc = "setup"
    /\ line = Malformed                      \* run()'s locals are unbound until
    /\ response = ParseErrorResponse("")     \* assigned: these values are never read
    /\ exc = ""
    /\ lines = <<>>
    /\ stdout = <<>>
    /\ calls = <<>>

run_vars == <<line, response, exc, lines, stdout, calls>>

\* @mcp.tool
LoadTool ==
    /\ pc = "setup"
    /\ loaded < Len(Module)
    /\ Module[loaded + 1].decorator = "tool"
    /\ tool(Module[loaded + 1].func)
    /\ loaded' = loaded + 1
    \* an exception of the decorator leaves the module, and the process ends
    /\ pc' = IF _get_schema(Module[loaded + 1].func).how = "raise" THEN "raised" ELSE pc
    /\ UNCHANGED <<functions, run_vars>>

\* @mcp.resource(uri)
LoadResource ==
    /\ pc = "setup"
    /\ loaded < Len(Module)
    /\ Module[loaded + 1].decorator = "resource"
    /\ resource(Module[loaded + 1].uri, Module[loaded + 1].func)
    /\ loaded' = loaded + 1
    /\ UNCHANGED <<functions, pc, run_vars>>

\* if __name__ == "__main__": mcp.run()
Main ==
    /\ pc = "setup"
    /\ loaded = Len(Module)
    /\ pc' = "read"
    /\ UNCHANGED <<functions, tools, tool_functions, resources, loaded, run_vars>>

\* line = sys.stdin.readline(), a line arrives
Readline ==
    /\ pc = "read"
    /\ Len(lines) < MaxLines
    /\ \E l \in Lines :
        /\ line' = l
        /\ lines' = Append(lines, l)
    /\ pc' = "loads"
    /\ UNCHANGED <<functions, tools, tool_functions, resources, loaded, response, exc, stdout, calls>>

\* line = sys.stdin.readline() returns "": if not line: break
ReadEof ==
    /\ pc = "read"
    /\ pc' = "done"
    /\ UNCHANGED <<functions, tools, tool_functions, resources, loaded, run_vars>>

\* the call history entries of line number k
Logged(k, invoked) ==
    [i \in 1..Len(invoked) |->
        [line |-> k, callee |-> invoked[i].callee,
         arguments |-> invoked[i].arguments, how |-> invoked[i].how,
         val |-> invoked[i].val]]

\* request = json.loads(line); response = self.handle_request(request)
LoadsAndHandle ==
    /\ pc = "loads"
    /\ \E env \in Env :
        LET request == JsonLoads(line)
            handled == handle_request(request.val, env)
            k == Len(lines)
        IN IF request.how = "raise"
           THEN /\ pc' = "except"
                /\ exc' = request.val
                /\ UNCHANGED <<response, calls>>
           ELSE /\ calls' = calls
                        \o Logged(k, <<Invocation("handle_request", request.val, handled)>>)
                        \o Logged(k, handled.invoked)
                /\ CASE handled.how = "raise" ->
                            /\ pc' = "except"
                            /\ exc' = handled.val
                            /\ UNCHANGED response
                     [] handled.how = "killed" ->
                            /\ pc' = "killed"
                            /\ UNCHANGED <<response, exc>>
                     [] OTHER ->
                            /\ pc' = "print"
                            /\ response' = handled.val
                            /\ UNCHANGED exc
    /\ UNCHANGED <<functions, tools, tool_functions, resources, loaded, line, lines, stdout>>

\* print(json.dumps(response)); sys.stdout.flush()
PrintResponse ==
    /\ pc = "print"
    /\ LET text == DumpsResponse(response)
       IN IF text.how = "raise"
          THEN /\ pc' = "except"
               /\ exc' = text.val
               /\ UNCHANGED stdout
          ELSE /\ pc' = "read"
               /\ stdout' = Append(stdout, text.val)
               /\ UNCHANGED exc
    /\ UNCHANGED <<functions, tools, tool_functions, resources, loaded, line, response, lines, calls>>

\* except Exception as e: print(json.dumps(error_response)); sys.stdout.flush()
ExceptParseError ==
    /\ pc = "except"
    /\ stdout' = Append(stdout, JsonText(ParseErrorResponse(exc)))
    /\ pc' = "read"
    /\ UNCHANGED <<functions, tools, tool_functions, resources, loaded, line, response, exc, lines, calls>>

Next ==
    \/ LoadTool
    \/ LoadResource
    \/ Main
    \/ Readline
    \/ ReadEof
    \/ LoadsAndHandle
    \/ PrintResponse
    \/ ExceptParseError

Spec == Init /\ [][Next]_vars

-----------------------------------------------------------------------------
(* What the claims speak of, read off the histories.  The k-th line        *)
(* printed is compared with the k-th line read.                            *)

Answered == 1..Len(stdout)
Answer(k) == stdout[k].json
IsError(envelope, code) == "error" \in DOMAIN envelope /\ envelope.error.code = code
IsObject(k) == ~lines[k].malformed /\ lines[k].json.k = "dict"
MemberOf(k, key) ==
    IF key \in DOMAIN lines[k].json.v THEN lines[k].json.v[key] ELSE Absent
IdOf(k) == IF MemberOf(k, "id") = Absent THEN None ELSE MemberOf(k, "id")
MethodIs(k, name) == MemberOf(k, "method") = StrV(name)
\* the member key of params, Absent when params is missing, no object or lacks it
ParamOf(k, key) ==
    IF MemberOf(k, "params").k # "dict" THEN Absent
    ELSE IF key \in DOMAIN MemberOf(k, "params").v
    THEN MemberOf(k, "params").v[key] ELSE Absent
CallsOf(k) == {i \in 1..Len(calls) : calls[i].line = k}
HandlerCallsOf(k) == {i \in CallsOf(k) : calls[i].callee # "handle_request"}
KnownMethods == {"initialize", "tools/list", "tools/call", "resources/list", "resources/read"}
\* the registries as the module's decorators leave them
RegisteredTools == {Module[i].func : i \in {j \in 1..Len(Module) : Module[j].decorator = "tool"}}
RegisteredUris == {Module[i].uri : i \in {j \in 1..Len(Module) : Module[j].decorator = "resource"}}

-----------------------------------------------------------------------------
(* C1: every response printed for a line that decodes to a request (a JSON *)
(* object) carries that request's id, null when it has no id member,       *)
(* whatever the method, the params and the routed handler's outcome.       *)
C1_ResponseIdEqualsRequestId ==
    \A k \in Answered : IsObject(k) => Answer(k).id = IdOf(k)

(* C2: no request terminates the transport loop: the process leaves the    *)
(* loop only by reading end-of-stream (pc = "done"), and then it has       *)
(* printed nothing more than the responses of the lines read.              *)
C2_LoopStopsOnlyAtEndOfStream ==
    /\ pc \in {"setup", "read", "loads", "print", "except", "done"}
    /\ pc = "done" => Len(stdout) = Len(lines)

C4_DispatchNeverThrows ==
    /\ \A i \in 1..Len(calls) : calls[i].callee = "handle_request" => calls[i].how # "raise"
    /\ \A k \in Answered : ~lines[k].malformed => ~IsError(Answer(k), -32700)

(* C5: a request whose method is none of initialize, tools/list,           *)
(* tools/call, resources/list, resources/read (or that has no method) is   *)
(* answered with error code -32601, and no tool or resource handler is     *)
(* invoked for it.                                                         *)
C5_UnknownMethodNotFound ==
    \A k \in 1..Len(lines) :
        (IsObject(k) /\ \A m \in KnownMethods : ~MethodIs(k, m)) =>
            /\ HandlerCallsOf(k) = {}
            /\ k = Len(lines) => pc \in {"loads", "print", "read", "done"}
            /\ k \in Answered =>
                /\ IsError(Answer(k), -32601)
                /\ "result" \notin DOMAIN Answer(k)

\* a request with no method member and one with an unknown method were answered
C5_Witness ==
    /\ \E k \in Answered : IsObject(k) /\ MemberOf(k, "method") = Absent
                           /\ IsError(Answer(k), -32601)
    /\ \E k \in Answered : IsObject(k) /\ MethodIs(k, "bogus")
                           /\ IsError(Answer(k), -32601)

(* C6: tools/call is decided by registry membership of params.name: an     *)
(* unregistered name (a missing one, a non-string JSON value) is answered  *)
(* with error code -32602 and no handler is invoked; a registered name     *)
(* whose handler returns normally (a value json can serialize) has had its *)
(* handler invoked exactly once, with params.arguments (default {}), and   *)
(* is answered with a result whose content[0] is {type: "text", text: the  *)
(* JSON text of the returned value}.                                       *)
C6_ToolCallByRegistryMembership ==
    \A k \in Answered : (IsObject(k) /\ MethodIs(k, "tools/call")) =>
        LET name == ParamOf(k, "name")
            arguments == IF ParamOf(k, "arguments") = Absent THEN EmptyDict
                         ELSE ParamOf(k, "arguments")
            returned == {i \in HandlerCallsOf(k) :
                            calls[i].how = "return" /\ Serializable(calls[i].val)}
        IN IF ~(name.k = "str" /\ name.v \in RegisteredTools)
           THEN IsError(Answer(k), -32602) /\ HandlerCallsOf(k) = {}
           ELSE returned # {} =>
                /\ Cardinality(HandlerCallsOf(k)) = 1
                /\ \A i \in returned :
                    /\ calls[i].callee = name.v
                    /\ calls[i].arguments = arguments
                    /\ "result" \in DOMAIN Answer(k)
                    /\ "error" \notin DOMAIN Answer(k)
                    /\ Answer(k).result.content[1] =
                           [type |-> "text",
                            text |-> [malformed |-> FALSE, json |-> calls[i].val,
                                      indent |-> 2]]

(* C7: resources/read is decided by registry membership of params.uri: an  *)
(* unregistered uri is answered with error code -32602 and the message     *)
(* "Unknown resource: <uri>" and no handler is invoked; a registered uri   *)
(* (whose handler returns) has had its zero-argument handler invoked       *)
(* exactly once and is answered with a result whose contents[0] is {uri,   *)
(* mimeType: "text/plain", text: the returned value}.  Stated for params   *)
(* that is a mapping or missing.                                           *)
C7_ResourceReadByRegistryMembership ==
    \A k \in Answered : (/\ IsObject(k)
                          /\ MethodIs(k, "resources/read")
                          /\ MemberOf(k, "params").k \in {"absent", "dict"}) =>
        LET uri == ParamOf(k, "uri")
            returned == {i \in HandlerCallsOf(k) : calls[i].how = "return"}
        IN IF ~(uri.k = "str" /\ uri.v \in RegisteredUris)
           THEN /\ IsError(Answer(k), -32602)
                /\ Answer(k).error.message =
                       "Unknown resource: " \o PyStr(IF uri = Absent THEN None ELSE uri)
                /\ HandlerCallsOf(k) = {}
           ELSE returned # {} =>
                /\ Cardinality(HandlerCallsOf(k)) = 1
                /\ \A i \in returned :
                    /\ calls[i].arguments = EmptyDict
                    /\ "result" \in DOMAIN Answer(k)
                    /\ "error" \notin DOMAIN Answer(k)
                    /\ Answer(k).result.contents[1] =
                           [uri |-> uri, mimeType |-> "text/plain", text |-> calls[i].val]

\* the handlers a module's decorators register, in order (no name twice in Module)
ModuleFuncs(decorator) ==
    SelectSeq(Module, LAMBDA d : d.decorator = decorator)

C9_ExactlyOneOfResultAndError ==
    \A k \in Answered :
        /\ Answer(k).jsonrpc = "2.0"
        /\ ("result" \in DOMAIN Answer(k)) # ("error" \in DOMAIN Answer(k))

\* a parse-error envelope and a result envelope were printed
C9_Witness ==
    /\ \E k \in Answered : IsError(Answer(k), -32700)
    /\ \E k \in Answered : "result" \in DOMAIN Answer(k)

(* C10: one line in, one line out, strictly sequential: whenever the       *)
(* process is not in the middle of a request, it has printed exactly one   *)
(* response per line read; in the middle of one, all but the response of   *)
(* the line in flight; and the k-th response printed is the envelope built *)
(* for the k-th line read.                                                 *)
C10_OneResponsePerLineInOrder ==
    /\ pc \in {"loads", "print", "except"} => Len(stdout) = Len(lines) - 1
    /\ pc \notin {"loads", "print", "except"} => Len(stdout) = Len(lines)
    /\ \A k \in Answered :
        \/ IsError(Answer(k), -32700) /\ Answer(k).id = None
        \/ \E i \in CallsOf(k) : /\ calls[i].callee = "handle_request"
                                 /\ calls[i].how = "return"
                                 /\ calls[i].val = Answer(k)

\* what a request is answered with when nothing but the request, the registries and
\* the routed handler's outcome (env) is looked at
StatelessAnswer(request, env) ==
    LET method == IF "method" \in DOMAIN request.v THEN request.v["method"] ELSE None
        params == IF "params" \in DOMAIN request.v THEN request.v["params"] ELSE EmptyDict
        request_id == IF "id" \in DOMAIN request.v THEN request.v["id"] ELSE None
        routed == Route(method, params, request_id, env)
    IN IF routed.how = "raise"
       THEN Res("return", _error_response(request_id, -32603, routed.val), routed.invoked)
       ELSE routed

\* the handler calls logged with the dispatch logged at position i of the history
HandlerCallsWith(i) ==
    [n \in 1..Cardinality(HandlerCallsOf(calls[i].line)) |->
        [callee |-> calls[i + n].callee, arguments |-> calls[i + n].arguments,
         how |-> calls[i + n].how, val |-> calls[i + n].val]]

\* every request dispatched so far was answered as StatelessAnswer answers it now,
\* and two dispatches of equal requests with equal handler outcomes returned the same
C11_AnswerDependsOnRequestOnly ==
    pc \in {"print", "except", "killed"} =>    \* the history grows at dispatch only
    /\ \A i \in 1..Len(calls) :
        (calls[i].callee = "handle_request" /\ calls[i].arguments.k = "dict") =>
            \E env \in Env :
                LET expected == StatelessAnswer(calls[i].arguments, env)
                IN /\ expected.how = calls[i].how
                   /\ expected.invoked = HandlerCallsWith(i)
                   /\ expected.how = "return" => expected.val = calls[i].val
    /\ \A i, j \in 1..Len(calls) :
        (/\ i < j
         /\ calls[i].callee = "handle_request"
         /\ calls[j].callee = "handle_request"
         /\ calls[i].arguments = calls[j].arguments
         /\ HandlerCallsWith(i) = HandlerCallsWith(j))
        => (calls[i].how = calls[j].how /\ calls[i].val = calls[j].val)

(* C11: the dispatcher is stateless and leaves the registries unchanged:   *)
(* the step that runs handle_request changes no entry of tools,            *)
(* tool_functions or resources, and the response to a request depends only *)
(* on that request, the registries and the invoked handler's outcome, not  *)
(* on the requests before it (so not on whether initialize was received).  *)
C11_DispatcherStateless ==
    /\ []C11_AnswerDependsOnRequestOnly
    /\ [][pc = "loads" => UNCHANGED <<tools, tool_functions, resources>>]_vars

\* initialize was answered, and then tools/list was answered with the registered
\* descriptors
C11_Witness ==
    /\ Len(stdout) = 2
    /\ IsObject(1) /\ MethodIs(1, "initialize") /\ "result" \in DOMAIN Answer(1)
    /\ IsObject(2) /\ MethodIs(2, "tools/list") /\ "result" \in DOMAIN Answer(2)
    /\ Answer(2).result.tools = OdValues(tools)

-----------------------------------------------------------------------------
(* Schema synthesis under every signature: a module defines one function f *)
(* and decorates it with @mcp.tool.                                        *)

\* How many parameters f declares at most.
MaxParams == 2

SignatureNames == {"self", "a", "b"}
\* int, float, str, bool, list, dict; bytes, which type_map does not know; no
\* annotation; the list display [int]; parameterized annotations by __origin__
Annotations ==
    {Annotation(cls) : cls \in {"int", "float", "str", "bool", "list", "dict",
                                "bytes", "empty", "[int]"}}
    \cup {Generic("List[int]", "list"), Generic("List[str]", "list"),
          Generic("Dict[str, int]", "dict"), Generic("Optional[int]", "Union")}
\* no default, the default 0, a default that equals anything
Defaults == {ParameterEmpty, IntV(0), ANY}
Parameters == [name : SignatureNames, annotation : Annotations, default : Defaults]
\* a signature names each parameter once
Signatures ==
    {sig \in UNION {[1..n -> Parameters] : n \in 0..MaxParams} :
        \A i, j \in DOMAIN sig : sig[i].name = sig[j].name => i = j}

SchemaInit ==
    /\ \E sig \in Signatures :
        functions = ("f" :> [name |-> "f", doc |-> "", signature |-> sig])
    /\ tools = <<>>
    /\ tool_functions = <<>>
    /\ resources = <<>>
    /\ loaded = 0
    /\ pc = "setup"
    /\ line = Malformed
    /\ response = ParseErrorResponse("")
    /\ exc = ""
    /\ lines = <<>>
    /\ stdout = <<>>
    /\ calls = <<>>

\* @mcp.tool above def f(...)
DecorateTool ==
    /\ pc = "setup"
    /\ loaded = 0
    /\ tool("f")
    /\ loaded' = 1
    /\ LET schema == _get_schema("f")
       IN /\ pc' = IF schema.how = "raise" THEN "raised" ELSE "done"
          /\ exc' = IF schema.how = "raise" THEN schema.val ELSE exc
    /\ UNCHANGED <<functions, line, response, lines, stdout, calls>>

SchemaNext == DecorateTool

SchemaSpec == SchemaInit /\ [][SchemaNext]_vars

\* the parameters func declares, other than one named self, in declaration order
Declared(func) ==
    LET NotSelf(param) == param.name # "self"
    IN SelectSeq(Signature(func), NotSelf)
\* those of params that have no default value
WithoutDefault(params) ==
    LET NoDefault(param) == param.default = ParameterEmpty
    IN SelectSeq(params, NoDefault)
NamesOf(params) == [i \in 1..Len(params) |-> params[i].name]

(* C12: the schema synthesized for a handler lists in properties exactly   *)
(* the declared parameters other than one named self, in declaration       *)
(* order, and in required exactly those of them that have no default       *)
(* value, in declaration order.                                            *)
C12_SchemaListsDeclaredParameters ==
    \A i \in 1..Len(tools) :
        LET schema == tools[i].value.inputSchema
            declared == Declared(OdGet(tool_functions, tools[i].key))
        IN /\ OdKeys(schema.properties) = NamesOf(declared)
           /\ schema.required = NamesOf(WithoutDefault(declared))

-----------------------------------------------------------------------------
(* Registration in any order: a module defines functions, two of them      *)
(* under one name, registers them as tools and as resources in any order   *)
(* and number, and then serves tools/list.                                 *)

\* How many decorators the module applies at most.
MaxRegistrations == 3

\* a_1 and a_2 are two definitions of a function named a; the annotation of c
\* cannot be hashed
RegistrationFunctions ==
    [func \in {"a_1", "a_2", "b_1", "c_1"} |->
        CASE func = "a_1" ->
                [name |-> "a", doc |-> "the first a",
                 signature |-> << [name |-> "x", annotation |-> Annotation("int"),
                                   default |-> ParameterEmpty] >>]
          [] func = "a_2" ->
                [name |-> "a", doc |-> "the second a",
                 signature |-> << [name |-> "y", annotation |-> Annotation("str"),
                                   default |-> IntV(0)] >>]
          [] func = "b_1" ->
                [name |-> "b", doc |-> "", signature |-> << >>]
          [] OTHER ->
                [name |-> "c", doc |-> "",
                 signature |-> << [name |-> "z", annotation |-> Annotation("[int]"),
                                   default |-> ParameterEmpty] >>]]

Uris == {"system://status", "custom://res"}

RegistrationInit ==
    /\ functions = RegistrationFunctions
    /\ tools = <<>>
    /\ tool_functions = <<>>
    /\ resources = <<>>
    /\ loaded = 0
    /\ pc = "setup"
    /\ line = Malformed
    /\ response = ParseErrorResponse("")
    /\ exc = ""
    /\ lines = <<>>
    /\ stdout = <<>>
    /\ calls = <<>>

\* @mcp.tool above a definition; calls records the decorator call
RegisterTool ==
    /\ pc = "setup"
    /\ loaded < MaxRegistrations
    /\ \E func \in DOMAIN functions :
        LET schema == _get_schema(func)
        IN /\ tool(func)
           /\ pc' = IF schema.how = "raise" THEN "raised" ELSE pc
           /\ exc' = IF schema.how = "raise" THEN schema.val ELSE exc
           /\ calls' = Append(calls, [callee |-> "tool", arguments |-> <<func>>,
                                      how |-> schema.how])
    /\ loaded' = loaded + 1
    /\ UNCHANGED <<functions, line, response, lines, stdout>>

\* @mcp.resource(uri) above a definition
RegisterResource ==
    /\ pc = "setup"
    /\ loaded < MaxRegistrations
    /\ \E uri \in Uris, func \in DOMAIN functions :
        /\ resource(uri, func)
        /\ calls' = Append(calls, [callee |-> "resource", arguments |-> <<uri, func>>,
                                   how |-> "return"])
    /\ loaded' = loaded + 1
    /\ UNCHANGED <<functions, pc, line, response, exc, lines, stdout>>

\* mcp.run() answers a tools/list request
ServeToolsList ==
    /\ pc = "setup"
    /\ response' = _handle_tools_list(IntV(1))
    /\ pc' = "done"
    /\ UNCHANGED <<functions, tools, tool_functions, resources, loaded, line, exc,
                   lines, stdout, calls>>

RegistrationNext ==
    \/ RegisterTool
    \/ RegisterResource
    \/ ServeToolsList

RegistrationSpec == RegistrationInit /\ [][RegistrationNext]_vars

\* the decorator calls that registered a tool under name / a resource under uri
ToolRegistrations(name) ==
    {i \in 1..Len(calls) : /\ calls[i].callee = "tool"
                           /\ calls[i].how = "return"
                           /\ FuncName(calls[i].arguments[1]) = name}
ResourceRegistrations(uri) ==
    {i \in 1..Len(calls) : calls[i].callee = "resource" /\ calls[i].arguments[1] = uri}
First(S) == CHOOSE i \in S : \A j \in S : i <= j
Last(S) == CHOOSE i \in S : \A j \in S : j <= i
\* the descriptor a registration of func stores
DescriptorOf(func) ==
    [name |-> functions[func].name,
     description |-> functions[func].doc,
     inputSchema |-> _get_schema(func).val]

\* one entry per registered name in both tool registries, each holding what the
\* last registration of the name gave; one handler per registered uri, the last
RegistriesHoldLastRegistrations ==
    /\ \A i, j \in 1..Len(tools) : tools[i].key = tools[j].key => i = j
    /\ {tools[i].key : i \in 1..Len(tools)}
         = {functions[func].name : func \in {f \in DOMAIN functions :
                                        ToolRegistrations(functions[f].name) # {}}}
    /\ {tools[i].key : i \in 1..Len(tools)}
         = {tool_functions[i].key : i \in 1..Len(tool_functions)}
    /\ \A i \in 1..Len(tools) :
        LET func == calls[Last(ToolRegistrations(tools[i].key))].arguments[1]
        IN /\ tools[i].value = DescriptorOf(func)
           /\ OdGet(tool_functions, tools[i].key) = func
    /\ \A i, j \in 1..Len(resources) : resources[i].key = resources[j].key => i = j
    /\ {resources[i].key : i \in 1..Len(resources)}
         = {uri \in Uris : ResourceRegistrations(uri) # {}}
    /\ \A i \in 1..Len(resources) :
        resources[i].value
            = calls[Last(ResourceRegistrations(resources[i].key))].arguments[2]

\* tools/list was answered with the registry's descriptors
ToolsListAnswered ==
    /\ pc = "done"
    /\ "result" \in DOMAIN response
    /\ response.result.tools = OdValues(tools)

(* C13 as stated: after any sequence of registrations each registry holds  *)
(* one entry per name or uri, tools and tool_functions have the same keys, *)
(* descriptor and handler come from the last registration of the name, the *)
(* resource handler from the last of the uri, and tools/list returns the   *)
(* descriptors in the order in which they were registered.                 *)
C13_ListInRegistrationOrder ==
    /\ RegistriesHoldLastRegistrations
    /\ pc = "done" =>
        /\ ToolsListAnswered
        /\ \A p, q \in 1..Len(tools) :
            p < q => Last(ToolRegistrations(tools[p].key))
                        < Last(ToolRegistrations(tools[q].key))

(* C13 amended: as stated, except that tools/list returns the descriptors  *)
(* in the order in which their names were first registered: registering a  *)
(* name again replaces its descriptor and handler in place.                *)
C13_ListInFirstRegistrationOrder ==
    /\ RegistriesHoldLastRegistrations
    /\ pc = "done" =>
        /\ ToolsListAnswered
        /\ \A p, q \in 1..Len(tools) :
            p < q => First(ToolRegistrations(tools[p].key))
                        < First(ToolRegistrations(tools[q].key))

\* a was registered, then b, then a again from another definition, and
\* tools/list was answered: a's new descriptor comes first
C13_Witness ==
    /\ pc = "done"
    /\ Len(tools) = 2
    /\ \E i, j, k \in 1..Len(calls) :
        /\ i < j /\ j < k
        /\ calls[i].callee = "tool" /\ calls[i].arguments = <<"a_1">>
        /\ calls[j].callee = "tool" /\ calls[j].arguments = <<"b_1">>
        /\ calls[k].callee = "tool" /\ calls[k].arguments = <<"a_2">>
    /\ response.result.tools[1].description = "the second a"

\* the type the claim gives an annotation
ClaimedType(annotation) ==
    IF annotation.origin # NoOrigin
    THEN CASE annotation.origin = "list" -> "array"
           [] annotation.origin = "dict" -> "object"
           [] OTHER -> "string"
    ELSE CASE annotation.cls = "int" -> "integer"
           [] annotation.cls = "float" -> "number"
           [] annotation.cls = "str" -> "string"
           [] annotation.cls = "bool" -> "boolean"
           [] annotation.cls = "list" -> "array"
           [] annotation.cls = "dict" -> "object"
           [] OTHER -> "string"

JsonTypeNames == {"integer", "number", "string", "boolean", "array", "object"}

(* C14: once f is decorated, every declared parameter has a synthesized    *)
(* type, which is the one its annotation maps to: integer, number, string, *)
(* boolean, array or object for int, float, str, bool, list, dict; the     *)
(* outer container's for a parameterized annotation; string for an absent  *)
(* or unrecognized annotation or outer container.  It is always one of the *)
(* six type names.                                                         *)
C14_AnnotationMapsToJsonType ==
    loaded = 1 =>
        /\ OdHas(tools, "f")
        /\ LET properties == OdGet(tools, "f").inputSchema.properties
               declared == Declared("f")
           IN \A i \in 1..Len(declared) :
                /\ OdHas(properties, declared[i].name)
                /\ OdGet(properties, declared[i].name).type
                       = ClaimedType(declared[i].annotation)
                /\ OdGet(properties, declared[i].name).type \in JsonTypeNames

====
